---- MODULE Spec2Model ----
(***************************************************************************)
(* Model of fsmonitor-settings.c: the lazily resolved, cached fsmonitor    *)
(* settings of a repository (mode, reason, hook_path), the precedence      *)
(* among core.fsmonitor, core.useBuiltinFSMonitor and GIT_TEST_FSMONITOR,  *)
(* and the incompatibility check.                                          *)
(*                                                                         *)
(* Every public function is one action.  The C functions are operators     *)
(* that thread a record st through the call:                               *)
(*   st.fsmonitor  r->settings.fsmonitor (NullSettings when NULL)          *)
(*   st.suppress   the value of GIT_SUPPRESS_USEBUILTINFSMONITOR_ADVICE    *)
(*   st.advice     number of advise_if_enabled() calls in the process      *)
(*   st.probes     what fsm_os__incompatible() will report, call by call   *)
(*   st.probed     what it did report during this call                     *)
(*   st.reads      the collaborators consulted during this call            *)
(*   st.resolutions  how often the call entered the config resolution      *)
(*   st.error      the message the call wrote with error(), if any         *)
(***************************************************************************)
EXTENDS Integers, Sequences, FiniteSets, TLC

\* ------------------------------------------------------------------ values

\* A NULL char pointer, an unset config key, an absent environment variable.
NULL == "(null)"

Modes == {"DISABLED", "IPC", "HOOK", "INCOMPATIBLE"}

\* The platform probe's answers, and the reasons a context can carry.
ProbeReasons == {"OK", "ERROR", "REMOTE", "VFS4GIT", "NOSOCKETS"}
Reasons == ProbeReasons \cup {"BARE"}

\* The repository structs of the process: the_repository and one more
\* (a submodule's), which exists in some processes only.
Repos == {"the_repository", "submodule"}

\* Values of core.fsmonitor, core.useBuiltinFSMonitor, GIT_TEST_FSMONITOR,
\* GIT_SUPPRESS_USEBUILTINFSMONITOR_ADVICE and of set_hook's path argument.
FsmonitorValues == {NULL, "true", "false", "/x/hook", "~/hook"}
UseBuiltinValues == {NULL, "true", "false"}
TestEnvValues == {NULL, "", "/y/hook"}
SuppressValues == {NULL, "0", "1"}
HookArgs == {"/z/hook"}

\* r->settings.fsmonitor == NULL
NullSettings == [null |-> TRUE]

VARIABLES
    repos,              \* the repository structs that exist in this process
    worktree,           \* worktree[r]: r->worktree is non-NULL
    config,             \* config[r]: the two config keys of r, as raw text
    test_env,           \* GIT_TEST_FSMONITOR
    suppress_env,       \* GIT_SUPPRESS_USEBUILTINFSMONITOR_ADVICE
    have_os_settings,   \* the build defines HAVE_FSMONITOR_OS_SETTINGS
    probe_reasons,      \* the answers fsm_os__incompatible() can give here
    fsmonitor,          \* fsmonitor[r]: r->settings.fsmonitor
    advice,             \* advise_if_enabled() calls so far
    threads,            \* the threads inside fsm_settings__get_mode: where
                        \* each one is, what it saw and returned, and the
                        \* settings instances allocated so far
    last                \* the last public call: function, repository, the
                        \* settings it found, its result and what it consulted

vars == <<repos, worktree, config, test_env, suppress_env, have_os_settings,
          probe_reasons, fsmonitor, advice, threads, last>>

\* ------------------------------------------------- external collaborators

\* git_parse_maybe_bool(): 1, 0, or -1 for text that is no boolean.
git_parse_maybe_bool(text) ==
    IF text = "true" \/ text = "1" THEN 1
    ELSE IF text = "false" \/ text = "0" \/ text = "" THEN 0
    ELSE -1

\* repo_config_get_maybe_bool(r, "core.fsmonitor", &bool_value):
\* 0 with the boolean, 1 when the key is unset, -1 for any other string.
repo_config_get_maybe_bool(r) ==
    LET v == config[r].fsmonitor IN
    IF v = NULL THEN [ret |-> 1, bool_value |-> 0]
    ELSE IF git_parse_maybe_bool(v) = -1 THEN [ret |-> -1, bool_value |-> 0]
    ELSE [ret |-> 0, bool_value |-> git_parse_maybe_bool(v)]

\* repo_config_get_bool(r, "core.useBuiltinFSMonitor", &value):
\* 0 with the boolean when the key is set, 1 when it is not.
repo_config_get_bool(r) ==
    LET v == config[r].useBuiltinFSMonitor IN
    IF v = NULL THEN [ret |-> 1, value |-> 0]
    ELSE [ret |-> 0, value |-> IF git_parse_maybe_bool(v) = 1 THEN 1 ELSE 0]

\* interpolate_path(): a leading "~/" names the user's home directory.
interpolate_path(path) ==
    IF path = "~/hook" THEN "/home/hook" ELSE path

\* repo_config_get_pathname(r, "core.fsmonitor", &const_str):
\* 0 with the interpolated path when the key is set, 1 when it is not.
repo_config_get_pathname(r) ==
    LET v == config[r].fsmonitor IN
    IF v = NULL THEN [ret |-> 1, const_str |-> NULL]
    ELSE [ret |-> 0, const_str |-> interpolate_path(v)]

\* git_env_bool("GIT_SUPPRESS_USEBUILTINFSMONITOR_ADVICE", 0)
git_env_bool(value) ==
    IF value = NULL THEN 0
    ELSE IF git_parse_maybe_bool(value) = 1 THEN 1 ELSE 0

\* One more collaborator consulted during the call.
Consult(st, what) == [st EXCEPT !.reads = @ \cup {what}]

\* fsm_os__incompatible(r): the next answer of the platform probe.
fsm_os__incompatible(st) ==
    [st |-> [Consult(st, "fsm_os__incompatible") EXCEPT
                !.probes = Tail(@), !.probed = Append(@, Head(st.probes))],
     reason |-> Head(st.probes)]

\* ------------------------------------------------------- fsmonitor-settings.c

\* set_incompatible that records a fixed reason instead of the one given.
set_incompatible_fixed_reason(st, reason) ==
    [st EXCEPT !.fsmonitor.mode = "INCOMPATIBLE", !.fsmonitor.reason = "ERROR"]

set_incompatible(st, reason) ==
    [st EXCEPT !.fsmonitor.mode = "INCOMPATIBLE", !.fsmonitor.reason = reason]

\* check_for_incompatible without the test for a bare repository.
check_for_incompatible_no_bare(r, st) ==
    IF have_os_settings /\ worktree[r]
    THEN LET p == fsm_os__incompatible(st) IN
         IF p.reason # "OK"
         THEN [st |-> set_incompatible(p.st, p.reason), ret |-> 1]
         ELSE [st |-> p.st, ret |-> 0]
    ELSE [st |-> st, ret |-> 0]

check_for_incompatible(r, st) ==
    LET st1 == Consult(st, "worktree") IN
    IF ~worktree[r]
    THEN [st |-> set_incompatible(st1, "BARE"), ret |-> 1]
    ELSE IF have_os_settings
         THEN LET p == fsm_os__incompatible(st1) IN
              IF p.reason # "OK"
              THEN [st |-> set_incompatible(p.st, p.reason), ret |-> 1]
              ELSE [st |-> p.st, ret |-> 0]
         ELSE [st |-> st1, ret |-> 0]

RECURSIVE lookup_fsmonitor_settings(_, _)
RECURSIVE fsm_settings__set_ipc(_, _)
RECURSIVE fsm_settings__set_hook(_, _, _)
RECURSIVE check_deprecated_builtin_config(_, _)

\* check_deprecated_builtin_config that reports the setting as handled
\* whenever the key is present, also when its value is false.
check_deprecated_builtin_config_any(r, st) ==
    LET c   == repo_config_get_bool(r)
        st1 == Consult(st, "core.useBuiltinFSMonitor")
        st2 == Consult(st1, "GIT_SUPPRESS_USEBUILTINFSMONITOR_ADVICE")
        st3 == IF git_env_bool(st2.suppress) = 0
               THEN [Consult(st2, "advise_if_enabled") EXCEPT
                        !.advice = @ + 1, !.suppress = "1"]
               ELSE st2
    IN  IF c.ret = 0
        THEN IF c.value # 0
             THEN [st |-> fsm_settings__set_ipc(r, st3), ret |-> 1]
             ELSE [st |-> st3, ret |-> 1]
        ELSE [st |-> st1, ret |-> 0]

\* check_deprecated_builtin_config without the setenv() after the advice.
check_deprecated_builtin_config_no_setenv(r, st) ==
    LET c   == repo_config_get_bool(r)
        st1 == Consult(st, "core.useBuiltinFSMonitor")
        st2 == Consult(st1, "GIT_SUPPRESS_USEBUILTINFSMONITOR_ADVICE")
        st3 == IF git_env_bool(st2.suppress) = 0
               THEN [Consult(st2, "advise_if_enabled") EXCEPT !.advice = @ + 1]
               ELSE st2
    IN  IF c.ret = 0
        THEN IF c.value # 0
             THEN [st |-> fsm_settings__set_ipc(r, st3), ret |-> 1]
             ELSE [st |-> st3, ret |-> 0]
        ELSE [st |-> st1, ret |-> 0]

check_deprecated_builtin_config(r, st) ==
    LET c   == repo_config_get_bool(r)
        st1 == Consult(st, "core.useBuiltinFSMonitor")
        st2 == Consult(st1, "GIT_SUPPRESS_USEBUILTINFSMONITOR_ADVICE")
        st3 == IF git_env_bool(st2.suppress) = 0
               THEN [Consult(st2, "advise_if_enabled") EXCEPT
                        !.advice = @ + 1, !.suppress = "1"]
               ELSE st2
    IN  IF c.ret = 0
        THEN IF c.value # 0
             THEN [st |-> fsm_settings__set_ipc(r, st3), ret |-> 1]
             ELSE [st |-> st3, ret |-> 0]
        ELSE [st |-> st1, ret |-> 0]

\* lookup_fsmonitor_settings whose "case 0" lacks the return, so that a
\* boolean core.fsmonitor falls through to the checks of "case 1".
lookup_fsmonitor_settings_fallthrough(r, st) ==
    IF st.fsmonitor # NullSettings
    THEN st
    ELSE
    LET s   == [mode |-> "DISABLED", reason |-> "OK", hook_path |-> NULL]
        st0 == Consult([st EXCEPT !.fsmonitor = s, !.resolutions = @ + 1],
                       "core.fsmonitor")
        mb  == repo_config_get_maybe_bool(r)
        st1 == IF mb.ret = 0 /\ mb.bool_value # 0
               THEN fsm_settings__set_ipc(r, st0) ELSE st0
        dep == check_deprecated_builtin_config(r, st1)
        pn  == repo_config_get_pathname(r)
        Hook(stx, const_str) ==
            IF const_str = NULL \/ const_str = ""
            THEN stx
            ELSE fsm_settings__set_hook(r, stx, const_str)
    IN  CASE mb.ret \in {0, 1} ->
                IF dep.ret # 0 THEN dep.st
                ELSE Hook(Consult(dep.st, "GIT_TEST_FSMONITOR"), test_env)
          [] mb.ret = -1 ->
                IF dep.ret # 0 THEN dep.st
                ELSE IF pn.ret # 0 THEN Consult(dep.st, "repo_config_get_pathname")
                ELSE Hook(Consult(dep.st, "repo_config_get_pathname"), pn.const_str)
          [] OTHER -> st0

\* lookup_fsmonitor_settings in which a non-empty GIT_TEST_FSMONITOR takes
\* the place of the pathname of a string core.fsmonitor.
lookup_fsmonitor_settings_env_override(r, st) ==
    IF st.fsmonitor # NullSettings
    THEN st
    ELSE
    LET s   == [mode |-> "DISABLED", reason |-> "OK", hook_path |-> NULL]
        st0 == Consult([st EXCEPT !.fsmonitor = s, !.resolutions = @ + 1],
                       "core.fsmonitor")
        mb  == repo_config_get_maybe_bool(r)
        dep == check_deprecated_builtin_config(r, st0)
        pn  == repo_config_get_pathname(r)
        Hook(stx, const_str) ==
            IF const_str = NULL \/ const_str = ""
            THEN stx
            ELSE fsm_settings__set_hook(r, stx, const_str)
    IN  CASE mb.ret = 0 ->
                IF mb.bool_value # 0 THEN fsm_settings__set_ipc(r, st0) ELSE st0
          [] mb.ret = 1 ->
                IF dep.ret # 0 THEN dep.st
                ELSE Hook(Consult(dep.st, "GIT_TEST_FSMONITOR"), test_env)
          [] mb.ret = -1 ->
                IF dep.ret # 0 THEN dep.st
                ELSE IF test_env \notin {NULL, ""}
                THEN Hook(Consult(dep.st, "GIT_TEST_FSMONITOR"), test_env)
                ELSE Hook(Consult(dep.st, "repo_config_get_pathname"), pn.const_str)
          [] OTHER -> st0

\* lookup_fsmonitor_settings that pins a bare repository as soon as the
\* defaults are installed, before the config is read.
lookup_fsmonitor_settings_eager_bare(r, st) ==
    IF st.fsmonitor # NullSettings
    THEN st
    ELSE
    LET s   == [mode |-> "DISABLED", reason |-> "OK", hook_path |-> NULL]
        st0 == Consult([st EXCEPT !.fsmonitor = s, !.resolutions = @ + 1],
                       "core.fsmonitor")
        mb  == repo_config_get_maybe_bool(r)
        dep == check_deprecated_builtin_config(r, st0)
        pn  == repo_config_get_pathname(r)
        Hook(stx, const_str) ==
            IF const_str = NULL \/ const_str = ""
            THEN stx
            ELSE fsm_settings__set_hook(r, stx, const_str)
    IN  IF ~worktree[r] THEN set_incompatible(st0, "BARE") ELSE
        CASE mb.ret = 0 ->
                IF mb.bool_value # 0 THEN fsm_settings__set_ipc(r, st0) ELSE st0
          [] mb.ret = 1 ->
                IF dep.ret # 0 THEN dep.st
                ELSE Hook(Consult(dep.st, "GIT_TEST_FSMONITOR"), test_env)
          [] mb.ret = -1 ->
                IF dep.ret # 0 THEN dep.st
                ELSE IF pn.ret # 0 THEN Consult(dep.st, "repo_config_get_pathname")
                ELSE Hook(Consult(dep.st, "repo_config_get_pathname"), pn.const_str)
          [] OTHER -> st0

\* lookup_fsmonitor_settings without the early return for settings that
\* are already there: every public call resolves the config again.
lookup_fsmonitor_settings_again(r, st) ==
    IF st.fsmonitor # NullSettings /\ st.resolutions > 0
    THEN st
    ELSE
    LET s   == [mode |-> "DISABLED", reason |-> "OK", hook_path |-> NULL]
        st0 == Consult([st EXCEPT !.fsmonitor = s, !.resolutions = @ + 1],
                       "core.fsmonitor")
        mb  == repo_config_get_maybe_bool(r)
        dep == check_deprecated_builtin_config(r, st0)
        pn  == repo_config_get_pathname(r)
        Hook(stx, const_str) ==
            IF const_str = NULL \/ const_str = ""
            THEN stx
            ELSE fsm_settings__set_hook(r, stx, const_str)
    IN  CASE mb.ret = 0 ->
                IF mb.bool_value # 0 THEN fsm_settings__set_ipc(r, st0) ELSE st0
          [] mb.ret = 1 ->
                IF dep.ret # 0 THEN dep.st
                ELSE Hook(Consult(dep.st, "GIT_TEST_FSMONITOR"), test_env)
          [] mb.ret = -1 ->
                IF dep.ret # 0 THEN dep.st
                ELSE IF pn.ret # 0 THEN Consult(dep.st, "repo_config_get_pathname")
                ELSE Hook(Consult(dep.st, "repo_config_get_pathname"), pn.const_str)
          [] OTHER -> st0

\* lookup_fsmonitor_settings that installs the settings on the repository
\* only after the config is resolved, so that the lookup nested in set_ipc
\* and set_hook finds none and resolves again.  The recursion is cut off at
\* the third entry, and the platform probe answers OK to the checks of the
\* nested resolutions.
lookup_fsmonitor_settings_install_last(r, st) ==
    IF st.fsmonitor # NullSettings
    THEN st
    ELSE
    LET s   == [mode |-> "DISABLED", reason |-> "OK", hook_path |-> NULL]
        Install(stx) ==
            IF stx.fsmonitor = NullSettings
            THEN [stx EXCEPT !.fsmonitor = s] ELSE stx
        st0 == Consult([st EXCEPT !.resolutions = @ + 1,
                                  !.probes = @ \o <<"OK", "OK">>],
                       "core.fsmonitor")
        mb  == repo_config_get_maybe_bool(r)
        dep == check_deprecated_builtin_config(r, st0)
        pn  == repo_config_get_pathname(r)
        Hook(stx, const_str) ==
            IF const_str = NULL \/ const_str = ""
            THEN stx
            ELSE fsm_settings__set_hook(r, stx, const_str)
    IN  IF st.resolutions >= 2 THEN Install(st0) ELSE
        Install(
        CASE mb.ret = 0 ->
                IF mb.bool_value # 0 THEN fsm_settings__set_ipc(r, st0) ELSE st0
          [] mb.ret = 1 ->
                IF dep.ret # 0 THEN dep.st
                ELSE Hook(Consult(dep.st, "GIT_TEST_FSMONITOR"), test_env)
          [] mb.ret = -1 ->
                IF dep.ret # 0 THEN dep.st
                ELSE IF pn.ret # 0 THEN Consult(dep.st, "repo_config_get_pathname")
                ELSE Hook(Consult(dep.st, "repo_config_get_pathname"), pn.const_str)
          [] OTHER -> st0)

lookup_fsmonitor_settings(r, st) ==
    IF st.fsmonitor # NullSettings
    THEN st
    ELSE
    LET s   == [mode |-> "DISABLED", reason |-> "OK", hook_path |-> NULL]
        st0 == Consult([st EXCEPT !.fsmonitor = s, !.resolutions = @ + 1],
                       "core.fsmonitor")
        mb  == repo_config_get_maybe_bool(r)
        dep == check_deprecated_builtin_config(r, st0)
        pn  == repo_config_get_pathname(r)
        Hook(stx, const_str) ==
            IF const_str = NULL \/ const_str = ""
            THEN stx
            ELSE fsm_settings__set_hook(r, stx, const_str)
    IN  CASE mb.ret = 0 ->
                IF mb.bool_value # 0 THEN fsm_settings__set_ipc(r, st0) ELSE st0
          [] mb.ret = 1 ->
                IF dep.ret # 0 THEN dep.st
                ELSE Hook(Consult(dep.st, "GIT_TEST_FSMONITOR"), test_env)
          [] mb.ret = -1 ->
                IF dep.ret # 0 THEN dep.st
                ELSE IF pn.ret # 0 THEN Consult(dep.st, "repo_config_get_pathname")
                ELSE Hook(Consult(dep.st, "repo_config_get_pathname"), pn.const_str)
          [] OTHER -> st0

\* fsm_settings__set_ipc without the incompatibility check.
fsm_settings__set_ipc_unchecked(r, st) ==
    LET st1 == lookup_fsmonitor_settings(r, st)
    IN  [st1 EXCEPT !.fsmonitor.mode = "IPC", !.fsmonitor.hook_path = NULL]

fsm_settings__set_ipc(r, st) ==
    LET c == check_for_incompatible(r, lookup_fsmonitor_settings(r, st)) IN
    IF c.ret # 0
    THEN c.st
    ELSE [c.st EXCEPT !.fsmonitor.mode = "IPC", !.fsmonitor.hook_path = NULL]

\* fsm_settings__set_hook that frees the old hook_path and stores no new one.
fsm_settings__set_hook_no_path(r, st, path) ==
    LET c == check_for_incompatible(r, lookup_fsmonitor_settings(r, st)) IN
    IF c.ret # 0
    THEN c.st
    ELSE [c.st EXCEPT !.fsmonitor.mode = "HOOK", !.fsmonitor.hook_path = NULL]

fsm_settings__set_hook(r, st, path) ==
    LET c == check_for_incompatible(r, lookup_fsmonitor_settings(r, st)) IN
    IF c.ret # 0
    THEN c.st
    ELSE [c.st EXCEPT !.fsmonitor.mode = "HOOK", !.fsmonitor.hook_path = path]

\* fsm_settings__set_disabled that leaves the reason as it is.
fsm_settings__set_disabled_keeps_reason(r, st) ==
    LET st1 == lookup_fsmonitor_settings(r, st) IN
    [st1 EXCEPT !.fsmonitor.mode = "DISABLED", !.fsmonitor.hook_path = NULL]

fsm_settings__set_disabled(r, st) ==
    [lookup_fsmonitor_settings(r, st) EXCEPT
        !.fsmonitor = [mode |-> "DISABLED", reason |-> "OK", hook_path |-> NULL]]

fsm_settings__get_mode(r, st) ==
    LET st1 == lookup_fsmonitor_settings(r, st) IN
    [st |-> st1, ret |-> st1.fsmonitor.mode]

fsm_settings__get_hook_path(r, st) ==
    LET st1 == lookup_fsmonitor_settings(r, st) IN
    [st |-> st1, ret |-> st1.fsmonitor.hook_path]

fsm_settings__get_reason(r, st) ==
    LET st1 == lookup_fsmonitor_settings(r, st) IN
    [st |-> st1, ret |-> st1.fsmonitor.reason]

\* error(fmt, arg): the message, as its format and what fills the %s.
error(st, fmt, arg) == [st EXCEPT !.error = <<fmt, arg>>]

\* How a call can end other than by returning: killed by the signal of an
\* invalid memory access, or aborted by BUG().
Killed == {"SIGSEGV", "BUG"}

\* What dereferencing r == NULL for r->worktree can do: kill the process, or
\* read whatever is at that address.
NullDereference == {"SIGSEGV", "garbage"}

\* fsm_settings__error_if_incompatible whose switch has no case for
\* FSMONITOR_REASON_NOSOCKETS.
fsm_settings__error_if_incompatible_no_sockets(r, st, deref) ==
    LET g == fsm_settings__get_reason(IF r = NULL THEN "the_repository" ELSE r, st)
        reason == g.ret
        Worktree(fmt) ==
            IF r # NULL
            THEN [st |-> error(g.st, fmt, "r->worktree"), ret |-> "1"]
            ELSE IF deref = "SIGSEGV"
            THEN [st |-> g.st, ret |-> "SIGSEGV"]
            ELSE [st |-> error(g.st, fmt, deref), ret |-> "1"]
    IN  CASE reason = "OK" -> [st |-> g.st, ret |-> "0"]
          [] reason = "BARE" ->
                [st |-> error(g.st,
                              "bare repository '%s' is incompatible with fsmonitor",
                              "xgetcwd()"),
                 ret |-> "1"]
          [] reason = "ERROR" ->
                Worktree("repository '%s' is incompatible with fsmonitor due to errors")
          [] reason = "REMOTE" ->
                Worktree("remote repository '%s' is incompatible with fsmonitor")
          [] reason = "VFS4GIT" ->
                Worktree("virtual repository '%s' is incompatible with fsmonitor")
          [] OTHER -> [st |-> g.st, ret |-> "BUG"]

\* fsm_settings__error_if_incompatible(r).  Only fsm_settings__get_reason
\* replaces a NULL r by the_repository; the messages that name r->worktree
\* read it through the r the caller gave.  deref is what that does when r
\* is NULL.
fsm_settings__error_if_incompatible(r, st, deref) ==
    LET g == fsm_settings__get_reason(IF r = NULL THEN "the_repository" ELSE r, st)
        reason == g.ret
        Worktree(fmt) ==
            IF r # NULL
            THEN [st |-> error(g.st, fmt, "r->worktree"), ret |-> "1"]
            ELSE IF deref = "SIGSEGV"
            THEN [st |-> g.st, ret |-> "SIGSEGV"]
            ELSE [st |-> error(g.st, fmt, deref), ret |-> "1"]
    IN  CASE reason = "OK" -> [st |-> g.st, ret |-> "0"]
          [] reason = "BARE" ->
                [st |-> error(g.st,
                              "bare repository '%s' is incompatible with fsmonitor",
                              "xgetcwd()"),
                 ret |-> "1"]
          [] reason = "ERROR" ->
                Worktree("repository '%s' is incompatible with fsmonitor due to errors")
          [] reason = "REMOTE" ->
                Worktree("remote repository '%s' is incompatible with fsmonitor")
          [] reason = "VFS4GIT" ->
                Worktree("virtual repository '%s' is incompatible with fsmonitor")
          [] reason = "NOSOCKETS" ->
                Worktree("repository '%s' is incompatible with fsmonitor due to lack of Unix sockets")
          [] OTHER -> [st |-> g.st, ret |-> "BUG"]

\* ------------------------------------------------------------ the actions

\* "if (!r) r = the_repository;"
Repo(r) == IF r = NULL THEN "the_repository" ELSE r

\* The arguments a caller can pass for r.
RepoArgs == repos \cup {NULL}

\* The repositories the calls work on: every argument, NULL replaced.
Callees == {Repo(a) : a \in RepoArgs}

\* Sequences of length n over S.
Tuples(n, S) == [1..n -> S]

\* The probe's answers during one call, one per check_for_incompatible that
\* can reach the probe: one in lazy resolution, one in set_ipc or set_hook.
ProbeAnswers(r, checks) ==
    IF have_os_settings /\ worktree[r]
    THEN Tuples((IF fsmonitor[r] = NullSettings THEN 1 ELSE 0) + checks,
                probe_reasons)
    ELSE {<<>>}

\* The process state as a call on r finds it.
Enter(r, probes) ==
    [fsmonitor |-> fsmonitor[r], suppress |-> suppress_env, advice |-> advice,
     probes |-> probes, probed |-> <<>>, reads |-> {}, resolutions |-> 0,
     error |-> <<>>]

\* The process state as the call leaves it.  A process that was killed
\* makes no further call.
Leave(op, r, st, ret) ==
    /\ last.ret \notin Killed
    /\ fsmonitor' = [fsmonitor EXCEPT ![r] = st.fsmonitor]
    /\ suppress_env' = st.suppress
    /\ advice' = st.advice
    /\ last' = [op |-> op, r |-> r, before |-> fsmonitor[r], ret |-> ret,
                reads |-> st.reads, probed |-> st.probed,
                resolutions |-> st.resolutions, error |-> st.error]
    /\ UNCHANGED <<repos, worktree, config, test_env, have_os_settings,
                   probe_reasons, threads>>

GetMode ==
    \E r \in Callees : \E probes \in ProbeAnswers(r, 0) :
        \E res \in {fsm_settings__get_mode(r, Enter(r, probes))} :
            Leave("get_mode", r, res.st, res.ret)

GetHookPath ==
    \E r \in Callees : \E probes \in ProbeAnswers(r, 0) :
        \E res \in {fsm_settings__get_hook_path(r, Enter(r, probes))} :
            Leave("get_hook_path", r, res.st, res.ret)

GetReason ==
    \E r \in Callees : \E probes \in ProbeAnswers(r, 0) :
        \E res \in {fsm_settings__get_reason(r, Enter(r, probes))} :
            Leave("get_reason", r, res.st, res.ret)

SetIpc ==
    \E r \in Callees : \E probes \in ProbeAnswers(r, 1) :
        \E st \in {fsm_settings__set_ipc(r, Enter(r, probes))} :
            Leave("set_ipc", r, st, "void")

SetHook ==
    \E r \in Callees, path \in HookArgs : \E probes \in ProbeAnswers(r, 1) :
        \E st \in {fsm_settings__set_hook(r, Enter(r, probes), path)} :
            Leave("set_hook", r, st, "void")

SetDisabled ==
    \E r \in Callees : \E probes \in ProbeAnswers(r, 0) :
        \E st \in {fsm_settings__set_disabled(r, Enter(r, probes))} :
            Leave("set_disabled", r, st, "void")

\* fsm_settings__error_if_incompatible is the one function that uses r
\* before it replaces NULL, so here the argument itself is the input, and
\* with it what the dereference of NULL does.
ErrorIfIncompatible ==
    \E a \in RepoArgs :
        \E deref \in (IF a = NULL THEN NullDereference ELSE {"SIGSEGV"}) :
            \E probes \in ProbeAnswers(Repo(a), 0) :
                \E res \in {fsm_settings__error_if_incompatible(
                                a, Enter(Repo(a), probes), deref)} :
                    Leave("error_if_incompatible", Repo(a), res.st, res.ret)

Next ==
    \/ GetMode
    \/ GetHookPath
    \/ GetReason
    \/ SetIpc
    \/ SetHook
    \/ SetDisabled
    \/ ErrorIfIncompatible

\* ------------------------------------------------------------------- Init

NoCall == [op |-> "none", r |-> "the_repository", before |-> NullSettings,
           ret |-> "void", reads |-> {}, probed |-> <<>>, resolutions |-> 0,
           error |-> <<>>]

\* The threads of a process, and their state before any of them calls.
Threads == {"t1", "t2"}

NoThreads ==
    [pc        |-> [t \in Threads |-> "idle"],
     populated |-> [t \in Threads |-> FALSE],
     ret       |-> [t \in Threads |-> NULL],
     allocs    |-> 0,
     overlap   |-> FALSE]

Configs == [fsmonitor : FsmonitorValues, useBuiltinFSMonitor : UseBuiltinValues]

\* A repository struct that does not exist carries no state of its own.
NoConfig == [fsmonitor |-> NULL, useBuiltinFSMonitor |-> NULL]

InitWith(rs) ==
    /\ repos = rs
    /\ worktree \in [Repos -> BOOLEAN]
    /\ config \in [Repos -> Configs]
    /\ \A r \in Repos \ rs : worktree[r] = FALSE /\ config[r] = NoConfig
    /\ test_env \in TestEnvValues
    /\ have_os_settings \in BOOLEAN
    /\ fsmonitor = [r \in Repos |-> NullSettings]
    /\ advice = 0
    /\ threads = NoThreads
    /\ last = NoCall

\* A process with the_repository only, under any configuration.
Init ==
    /\ InitWith({"the_repository"})
    /\ probe_reasons = ProbeReasons
    /\ suppress_env \in SuppressValues

Spec == Init /\ [][Next]_vars

\* A process with two repository structs, both with core.useBuiltinFSMonitor
\* set and core.fsmonitor no boolean, that starts with the advice not
\* suppressed, in a build without HAVE_FSMONITOR_OS_SETTINGS.
InitMulti ==
    /\ InitWith(Repos)
    /\ ~have_os_settings
    /\ probe_reasons = ProbeReasons
    /\ \A r \in Repos :
            /\ repo_config_get_bool(r).ret = 0
            /\ repo_config_get_maybe_bool(r).ret # 0
    /\ suppress_env \in {v \in SuppressValues : git_env_bool(v) = 0}

SpecMulti == InitMulti /\ [][Next]_vars

\* The world around the process changes what the config store and the
\* environment hold: a config key of r, or GIT_TEST_FSMONITOR.
ConfigChange ==
    \E r \in repos, c \in Configs :
        /\ c # config[r]
        /\ config' = [config EXCEPT ![r] = c]
        /\ last' = [NoCall EXCEPT !.op = "config", !.r = r,
                                  !.before = fsmonitor[r]]
        /\ UNCHANGED <<repos, worktree, test_env, suppress_env,
                       have_os_settings, probe_reasons, fsmonitor, advice,
                       threads>>

EnvChange ==
    \E v \in TestEnvValues :
        /\ v # test_env
        /\ test_env' = v
        /\ last' = [NoCall EXCEPT !.op = "setenv",
                                  !.before = fsmonitor["the_repository"]]
        /\ UNCHANGED <<repos, worktree, config, suppress_env,
                       have_os_settings, probe_reasons, fsmonitor, advice,
                       threads>>

NextChange ==
    \/ Next
    \/ ConfigChange
    \/ EnvChange

\* A process with the_repository only, in a build without
\* HAVE_FSMONITOR_OS_SETTINGS, whose config and environment change while
\* it runs.
InitChange ==
    /\ InitWith({"the_repository"})
    /\ ~have_os_settings
    /\ probe_reasons = ProbeReasons
    /\ suppress_env = NULL

SpecChange == InitChange /\ [][NextChange]_vars

\* Two threads of one process call fsm_settings__get_mode(the_repository)
\* with nothing that serializes them.  A thread runs the call statement by
\* statement, and the other thread can run between any two of them.

\* "if (r->settings.fsmonitor) return;" that finds the settings populated
\* never.
settings_populated_never(settings) == FALSE

\* "if (r->settings.fsmonitor)"
settings_populated(settings) == settings # NullSettings

\* Thread t enters the call and tests r->settings.fsmonitor.  The calls
\* overlap when the other thread is inside its call at that time.
T_Check(t) ==
    /\ threads.pc[t] = "idle"
    /\ threads' = [threads EXCEPT
            !.populated[t] = settings_populated(fsmonitor["the_repository"]),
            !.pc[t] = IF settings_populated(fsmonitor["the_repository"])
                      THEN "return" ELSE "alloc",
            !.overlap = @ \/ \E u \in Threads \ {t} :
                                threads.pc[u] \in {"alloc", "config", "return"}]
    /\ UNCHANGED <<repos, worktree, config, test_env, suppress_env,
                   have_os_settings, probe_reasons, fsmonitor, advice, last>>

\* Thread t allocates a settings instance, defaults it and installs it on
\* the repository, over whatever is installed there.
T_Alloc(t) ==
    /\ threads.pc[t] = "alloc"
    /\ fsmonitor' = [fsmonitor EXCEPT !["the_repository"] =
            [mode |-> "DISABLED", reason |-> "OK", hook_path |-> NULL]]
    /\ threads' = [threads EXCEPT !.allocs = @ + 1, !.pc[t] = "config"]
    /\ UNCHANGED <<repos, worktree, config, test_env, suppress_env,
                   have_os_settings, probe_reasons, advice, last>>

\* Thread t resolves the config.  What the resolution writes, it writes
\* through r->settings.fsmonitor, to the instance installed at that time;
\* a resolution that calls neither set_ipc nor set_hook writes nothing.
T_Config(t) ==
    /\ threads.pc[t] = "config"
    /\ \E r \in {"the_repository"} :
       \E res \in {lookup_fsmonitor_settings(
                      r, [Enter(r, <<>>) EXCEPT !.fsmonitor = NullSettings])} :
           /\ fsmonitor' = [fsmonitor EXCEPT ![r] =
                   IF res.fsmonitor.mode = "DISABLED" THEN @ ELSE res.fsmonitor]
           /\ suppress_env' = res.suppress
           /\ advice' = res.advice
    /\ threads' = [threads EXCEPT !.pc[t] = "return"]
    /\ UNCHANGED <<repos, worktree, config, test_env, have_os_settings,
                   probe_reasons, last>>

\* Thread t returns r->settings.fsmonitor->mode.
T_Return(t) ==
    /\ threads.pc[t] = "return"
    /\ threads' = [threads EXCEPT
            !.ret[t] = fsmonitor["the_repository"].mode,
            !.pc[t] = "done"]
    /\ UNCHANGED <<repos, worktree, config, test_env, suppress_env,
                   have_os_settings, probe_reasons, fsmonitor, advice, last>>

NextThreads ==
    \E t \in Threads :
        \/ T_Check(t)
        \/ T_Alloc(t)
        \/ T_Config(t)
        \/ T_Return(t)

\* A process with the_repository only, in a build without
\* HAVE_FSMONITOR_OS_SETTINGS.
InitThreads ==
    /\ InitWith({"the_repository"})
    /\ ~have_os_settings
    /\ probe_reasons = ProbeReasons
    /\ suppress_env \in SuppressValues

SpecThreads == InitThreads /\ [][NextThreads]_vars

\* A process whose the_repository is incompatible for good: it has no
\* working directory, or the build has the platform probe and the probe
\* gives one and the same reason other than OK whenever it is asked.
InitPermanent ==
    /\ InitWith({"the_repository"})
    /\ \/ /\ ~worktree["the_repository"]
          /\ probe_reasons = ProbeReasons
       \/ /\ worktree["the_repository"]
          /\ have_os_settings
          /\ \E reason \in ProbeReasons \ {"OK"} : probe_reasons = {reason}
    /\ suppress_env \in SuppressValues

SpecPermanent == InitPermanent /\ [][Next]_vars

\* ----------------------------------------------------------------- claims

Resolved(r) == fsmonitor[r] # NullSettings

DisabledSettings == [mode |-> "DISABLED", reason |-> "OK", hook_path |-> NULL]

\* The last call was the first call on its repository: it ran lazy resolution.
FirstCall == last.op # "none" /\ last.before = NullSettings

Getters == {"get_mode", "get_hook_path", "get_reason"}

\* C1: in every reachable state hook_path is set (non-empty) if and only if
\* mode is HOOK; a context pinned INCOMPATIBLE has no hook_path.
C1_HookPathIffHook ==
    \A r \in repos :
        Resolved(r) =>
            ((fsmonitor[r].hook_path \notin {NULL, ""})
                <=> fsmonitor[r].mode = "HOOK")

\* C2: in every reachable state reason is not OK exactly when mode is
\* INCOMPATIBLE.
C2_ReasonIffIncompatible ==
    \A r \in repos :
        Resolved(r) =>
            (fsmonitor[r].reason # "OK" <=> fsmonitor[r].mode = "INCOMPATIBLE")

\* C3: once mode is INCOMPATIBLE, set_ipc and set_hook are no-ops (mode,
\* reason and hook_path stay as the call found them, the check answering
\* from the pin), and only set_disabled moves mode away from INCOMPATIBLE.
C3_PinnedSetIsNoOp ==
    (last.op # "none" /\ last.before # NullSettings
        /\ last.before.mode = "INCOMPATIBLE") =>
            /\ last.op \in {"set_ipc", "set_hook"} =>
                    fsmonitor[last.r] = last.before
            /\ fsmonitor[last.r].mode # "INCOMPATIBLE" =>
                    last.op = "set_disabled"

\* C4 as stated: from any reachable state set_disabled ends with DISABLED, OK
\* and no hook_path, and consults neither r->worktree nor the platform probe.
C4_SetDisabledNeverChecks ==
    last.op = "set_disabled" =>
        /\ fsmonitor[last.r] = DisabledSettings
        /\ last.reads \cap {"worktree", "fsm_os__incompatible"} = {}

\* C4 as amended: from any reachable state set_disabled ends with DISABLED,
\* OK and no hook_path; on a context that is already resolved it consults
\* nothing at all (on an unresolved one the lazy resolution it triggers may
\* run the incompatibility check before the result is overwritten).
C4_SetDisabled ==
    last.op = "set_disabled" =>
        /\ fsmonitor[last.r] = DisabledSettings
        /\ last.before # NullSettings => last.reads = {}

\* set_disabled has released a context that was pinned INCOMPATIBLE.
C4_Witness ==
    /\ last.op = "set_disabled"
    /\ last.before # NullSettings
    /\ last.before.mode = "INCOMPATIBLE"
    /\ last.before.reason # "BARE"
    /\ fsmonitor[last.r] = DisabledSettings

\* What the configuration of r asks for, read off the raw values:
\* the builtin monitor, a hook, or nothing.
Boolean(v) == v \in {"true", "false"}

AsksIpc(r) ==
    \/ config[r].fsmonitor = "true"
    \/ ~Boolean(config[r].fsmonitor) /\ config[r].useBuiltinFSMonitor = "true"

AsksHook(r) ==
    /\ ~AsksIpc(r)
    /\ ~Boolean(config[r].fsmonitor)
    /\ config[r].fsmonitor = NULL => test_env \notin {NULL, ""}

\* The last call found a working directory and a probe that reported OK
\* whenever it was asked.
Compatible ==
    /\ worktree[last.r]
    /\ \A i \in 1..Len(last.probed) : last.probed[i] = "OK"

\* What a getter returns is the field it reads.
Returned ==
    /\ last.op = "get_mode" => last.ret = fsmonitor[last.r].mode
    /\ last.op = "get_reason" => last.ret = fsmonitor[last.r].reason
    /\ last.op = "get_hook_path" => last.ret = fsmonitor[last.r].hook_path

\* C5 as stated: on a bare repository the first getter finds INCOMPATIBLE
\* and BARE under every configuration and environment.
C5_BareAlwaysIncompatible ==
    (FirstCall /\ last.op \in Getters /\ ~worktree[last.r]) =>
        /\ fsmonitor[last.r].mode = "INCOMPATIBLE"
        /\ fsmonitor[last.r].reason = "BARE"
        /\ Returned

\* C5 as amended: on a bare repository the first getter finds INCOMPATIBLE
\* and BARE under every configuration and environment that asks for the
\* builtin monitor or for a hook; when they ask for neither (core.fsmonitor
\* false, or unset with no true alias and no non-empty GIT_TEST_FSMONITOR)
\* it finds DISABLED and OK.
C5_BareResolution ==
    (FirstCall /\ last.op \in Getters /\ ~worktree[last.r]) =>
        /\ IF AsksIpc(last.r) \/ AsksHook(last.r)
           THEN fsmonitor[last.r] =
                    [mode |-> "INCOMPATIBLE", reason |-> "BARE", hook_path |-> NULL]
           ELSE fsmonitor[last.r] = DisabledSettings
        /\ Returned

\* The first get_mode on a bare repository configured with a hook path
\* returned INCOMPATIBLE.
C5_Witness ==
    /\ FirstCall /\ last.op = "get_mode" /\ ~worktree[last.r]
    /\ config[last.r].fsmonitor = "/x/hook"
    /\ config[last.r].useBuiltinFSMonitor = "false"
    /\ last.ret = "INCOMPATIBLE"
    /\ fsmonitor[last.r].reason = "BARE"

\* C6: with core.fsmonitor true the first get_mode returns IPC when there is
\* a working directory and the probe reports OK; else INCOMPATIBLE, with
\* BARE when there is no working directory (the probe is not asked) and
\* with exactly the probe's reason otherwise.
C6_TrueResolvesToIpc ==
    (FirstCall /\ last.op = "get_mode" /\ config[last.r].fsmonitor = "true") =>
        IF ~worktree[last.r]
        THEN /\ last.ret = "INCOMPATIBLE"
             /\ fsmonitor[last.r].reason = "BARE"
             /\ last.probed = <<>>
        ELSE /\ have_os_settings => Len(last.probed) = 1
             /\ IF Compatible
                THEN last.ret = "IPC" /\ fsmonitor[last.r].reason = "OK"
                ELSE /\ last.ret = "INCOMPATIBLE"
                     /\ fsmonitor[last.r].reason = last.probed[1]

\* The first get_mode under core.fsmonitor true returned INCOMPATIBLE with
\* the reason the probe gave.
C6_Witness ==
    /\ FirstCall /\ last.op = "get_mode" /\ config[last.r].fsmonitor = "true"
    /\ worktree[last.r]
    /\ last.probed = <<"REMOTE">>
    /\ last.ret = "INCOMPATIBLE"
    /\ fsmonitor[last.r].reason = "REMOTE"

\* C7: with core.fsmonitor false lazy resolution yields DISABLED, OK and no
\* hook_path whatever the alias and GIT_TEST_FSMONITOR hold, and consults
\* nothing but core.fsmonitor: not the alias, not the environment, not the
\* incompatibility check, and no advice is given.
C7_FalseShortCircuits ==
    (FirstCall /\ last.op \in Getters /\ config[last.r].fsmonitor = "false") =>
        /\ fsmonitor[last.r] = DisabledSettings
        /\ last.reads = {"core.fsmonitor"}
        /\ last.probed = <<>>
        /\ advice = 0
        /\ Returned

\* Resolution under core.fsmonitor false, with a true alias and a hook in
\* the environment, on a bare repository, gave DISABLED.
C7_Witness ==
    /\ FirstCall /\ last.op = "get_mode" /\ config[last.r].fsmonitor = "false"
    /\ config[last.r].useBuiltinFSMonitor = "true"
    /\ test_env = "/y/hook"
    /\ ~worktree[last.r]
    /\ last.ret = "DISABLED"

\* C8 and C9 are about a compatible repository whose core.fsmonitor is a
\* string that is no boolean.
StringKey(r) == config[r].fsmonitor # NULL /\ ~Boolean(config[r].fsmonitor)

\* C8 as stated: with core.fsmonitor a string p, no alias and a compatible
\* repository, lazy resolution yields HOOK and get_hook_path returns exactly
\* p, whatever GIT_TEST_FSMONITOR holds.
C8_HookPathIsKeyText ==
    (FirstCall /\ last.op \in Getters /\ StringKey(last.r)
        /\ config[last.r].useBuiltinFSMonitor = NULL /\ Compatible) =>
        /\ fsmonitor[last.r].mode = "HOOK"
        /\ fsmonitor[last.r].hook_path = config[last.r].fsmonitor
        /\ Returned

\* C8 as amended: with core.fsmonitor a string p, no alias and a compatible
\* repository, lazy resolution yields HOOK with reason OK, and get_hook_path
\* returns the pathname the config store gives for p: p itself for a plain
\* path, the path under the home directory for a p that starts with "~/";
\* whatever GIT_TEST_FSMONITOR holds, which is not consulted.
C8_HookPathIsPathname ==
    (FirstCall /\ last.op \in Getters /\ StringKey(last.r)
        /\ config[last.r].useBuiltinFSMonitor = NULL /\ Compatible) =>
        /\ fsmonitor[last.r].mode = "HOOK"
        /\ fsmonitor[last.r].reason = "OK"
        /\ fsmonitor[last.r].hook_path =
                (CASE config[last.r].fsmonitor = "/x/hook" -> "/x/hook"
                   [] config[last.r].fsmonitor = "~/hook" -> "/home/hook")
        /\ "GIT_TEST_FSMONITOR" \notin last.reads
        /\ Returned

\* The first get_hook_path under core.fsmonitor "/x/hook", with another hook
\* in the environment, returned "/x/hook".
C8_Witness ==
    /\ FirstCall /\ last.op = "get_hook_path"
    /\ config[last.r].fsmonitor = "/x/hook"
    /\ config[last.r].useBuiltinFSMonitor = NULL
    /\ test_env = "/y/hook"
    /\ Compatible /\ last.probed = <<"OK">>
    /\ last.ret = "/x/hook"

AliasRead(r) ==
    config[r].useBuiltinFSMonitor # NULL /\ ~Boolean(config[r].fsmonitor)

\* C10: in a process that starts without the suppression, over any calls on
\* its repositories (alias present, core.fsmonitor no boolean), the advice
\* is given exactly once: by the first lazy resolution, and never again.
C10_AdviceOnce ==
    /\ advice <= 1
    /\ (\E r \in repos : Resolved(r) /\ AliasRead(r)) =>
            advice = 1 /\ git_env_bool(suppress_env) = 1
    /\ (\A r \in repos : ~Resolved(r)) => advice = 0
    /\ (last.op # "none" /\ ~FirstCall) => "advise_if_enabled" \notin last.reads

\* Both repositories are resolved, the second without a second advice.
C10_Witness ==
    /\ \A r \in Repos : r \in repos /\ Resolved(r) /\ AliasRead(r)
    /\ FirstCall /\ last.r = "submodule"
    /\ "advise_if_enabled" \notin last.reads
    /\ advice = 1

\* C11: GIT_TEST_FSMONITOR counts only when core.fsmonitor is unset and the
\* alias did not settle the mode (it is unset or false): then, on a
\* compatible repository, a non-empty value p yields HOOK with hook_path p
\* and an absent or empty value leaves DISABLED.  When core.fsmonitor is a
\* boolean or a string the variable is not read and its value is in neither
\* the mode nor the hook_path.
C11_TestEnvFallback ==
    (FirstCall /\ last.op \in Getters) =>
        /\ (config[last.r].fsmonitor = NULL
                /\ config[last.r].useBuiltinFSMonitor # "true" /\ Compatible) =>
                /\ "GIT_TEST_FSMONITOR" \in last.reads
                /\ fsmonitor[last.r] =
                        (IF test_env \in {NULL, ""}
                         THEN DisabledSettings
                         ELSE [mode |-> "HOOK", reason |-> "OK",
                               hook_path |-> test_env])
        /\ config[last.r].fsmonitor # NULL =>
                /\ "GIT_TEST_FSMONITOR" \notin last.reads
                /\ fsmonitor[last.r].hook_path \notin {"", "/y/hook"}
                /\ Boolean(config[last.r].fsmonitor) =>
                        fsmonitor[last.r].mode # "HOOK"
        /\ Returned

\* The first get_hook_path with nothing configured but GIT_TEST_FSMONITOR
\* returned the variable's value.
C11_Witness ==
    /\ FirstCall /\ last.op = "get_hook_path"
    /\ config[last.r] = NoConfig
    /\ test_env = "/y/hook"
    /\ Compatible /\ last.probed = <<"OK">>
    /\ fsmonitor[last.r].mode = "HOOK"
    /\ last.ret = "/y/hook"

\* C12: with core.fsmonitor, the alias and GIT_TEST_FSMONITOR all absent,
\* the first getter on any repository, bare or not, whatever the probe would
\* say, finds DISABLED, OK and no hook_path.
C12_EmptyConfigDisabled ==
    (FirstCall /\ last.op \in Getters
        /\ config[last.r] = NoConfig /\ test_env = NULL) =>
        /\ fsmonitor[last.r] = DisabledSettings
        /\ last.probed = <<>>
        /\ Returned

\* The first get_mode on a bare repository with nothing configured
\* returned DISABLED.
C12_Witness ==
    /\ FirstCall /\ last.op = "get_mode"
    /\ config[last.r] = NoConfig /\ test_env = NULL
    /\ ~worktree[last.r]
    /\ last.ret = "DISABLED"
    /\ fsmonitor[last.r].reason = "OK"

\* The one message of each reason, and what fills its %s.
MessageOf(reason) ==
    CASE reason = "OK" -> <<>>
      [] reason = "BARE" ->
            <<"bare repository '%s' is incompatible with fsmonitor", "xgetcwd()">>
      [] reason = "ERROR" ->
            <<"repository '%s' is incompatible with fsmonitor due to errors",
              "r->worktree">>
      [] reason = "REMOTE" ->
            <<"remote repository '%s' is incompatible with fsmonitor",
              "r->worktree">>
      [] reason = "VFS4GIT" ->
            <<"virtual repository '%s' is incompatible with fsmonitor",
              "r->worktree">>
      [] reason = "NOSOCKETS" ->
            <<"repository '%s' is incompatible with fsmonitor due to lack of Unix sockets",
              "r->worktree">>

\* C13: in every reachable state error_if_incompatible returns 0 exactly
\* when the cached reason is OK and 1 otherwise, writes the one message of
\* that reason, and changes nothing of the settings of a resolved context.
C13_ErrorIfIncompatible ==
    last.op = "error_if_incompatible" =>
        /\ last.ret = (IF fsmonitor[last.r].reason = "OK" THEN "0" ELSE "1")
        /\ last.error = MessageOf(fsmonitor[last.r].reason)
        /\ last.before # NullSettings => fsmonitor[last.r] = last.before

\* The public functions.
Calls == Getters \cup {"set_ipc", "set_hook", "set_disabled",
                       "error_if_incompatible"}

\* C14: lazy resolution runs at most once per context: only the first call
\* on a context resolves, and every later getter leaves mode, reason and
\* hook_path as they were and returns the cached value without reading the
\* config or the environment, also after these have changed.
C14_ResolvedOnce ==
    /\ last.op \in Calls =>
            last.resolutions = (IF last.before = NullSettings THEN 1 ELSE 0)
    /\ (last.op \in Getters /\ last.before # NullSettings) =>
            /\ fsmonitor[last.r] = last.before
            /\ last.reads = {}
            /\ last.op = "get_mode" => last.ret = last.before.mode
            /\ last.op = "get_reason" => last.ret = last.before.reason
            /\ last.op = "get_hook_path" => last.ret = last.before.hook_path

\* A later get_hook_path returned the path resolved from core.fsmonitor
\* although the key has been set to false and GIT_TEST_FSMONITOR names
\* another hook since.
C14_Witness ==
    /\ last.op = "get_hook_path" /\ last.before # NullSettings
    /\ config[last.r].fsmonitor = "false"
    /\ test_env = "/y/hook"
    /\ last.ret = "/x/hook"
    /\ fsmonitor[last.r].mode = "HOOK"

\* The incompatibility check of the last set_ipc or set_hook itself passed:
\* there is a working directory and the probe, where the build has one,
\* answered OK to the call's own (last) check.
CheckPassed ==
    /\ worktree[last.r]
    /\ have_os_settings =>
            /\ Len(last.probed) >= 1
            /\ last.probed[Len(last.probed)] = "OK"

\* C15: whenever its incompatibility check passes, from any prior state,
\* set_hook(path) ends with HOOK, OK and hook_path = path, and set_ipc ends
\* with IPC, OK and no hook_path.
C15_SettersEstablishMode ==
    /\ (last.op = "set_hook" /\ CheckPassed) =>
            /\ fsmonitor[last.r].mode = "HOOK"
            /\ fsmonitor[last.r].reason = "OK"
            /\ fsmonitor[last.r].hook_path \in HookArgs
    /\ (last.op = "set_ipc" /\ CheckPassed) =>
            fsmonitor[last.r] =
                [mode |-> "IPC", reason |-> "OK", hook_path |-> NULL]

\* C17: in every reachable state the cached reason is one of OK, BARE,
\* ERROR, REMOTE, VFS4GIT, NOSOCKETS (and the mode one of the four modes),
\* so error_if_incompatible never reaches BUG() and every getter returns a
\* value of its type.
C17_ReasonRecognized ==
    /\ \A r \in repos :
            Resolved(r) =>
                /\ fsmonitor[r].reason \in Reasons
                /\ fsmonitor[r].mode \in Modes
    /\ last.ret # "BUG"
    /\ last.op = "get_mode" => last.ret \in Modes
    /\ last.op = "get_reason" => last.ret \in Reasons
    /\ last.op = "get_hook_path" =>
            last.ret \in {NULL, "/x/hook", "/home/hook", "/y/hook"} \cup HookArgs

\* error_if_incompatible found the reason of the last case of its switch
\* and returned 1 with that case's message.
C17_Witness ==
    /\ last.op = "error_if_incompatible"
    /\ fsmonitor[last.r].reason = "NOSOCKETS"
    /\ last.ret = "1"
    /\ last.error = MessageOf("NOSOCKETS")

\* C18: lazy resolution terminates with bounded depth: the settings are
\* installed before the config is read, so the lookup nested in the
\* set_ipc or set_hook of a resolution is a no-op, and a call enters the
\* config resolution once when it is the first on its context and never
\* otherwise, reading core.fsmonitor once and running the incompatibility
\* check at most once per set_ipc or set_hook.
C18_ResolutionEnteredOnce ==
    last.op \in Calls =>
        /\ last.resolutions <= 1
        /\ FirstCall => last.resolutions = 1 /\ "core.fsmonitor" \in last.reads
        /\ Len(last.probed) <= 2
        /\ last.op \in Getters => Len(last.probed) <= 1
        /\ Resolved(last.r)

\* The first get_mode under core.fsmonitor true went through the set_ipc of
\* the resolution, whose nested lookup resolved nothing again.
C18_Witness ==
    /\ FirstCall /\ last.op = "get_mode"
    /\ config[last.r].fsmonitor = "true"
    /\ "worktree" \in last.reads
    /\ last.ret = "IPC"
    /\ last.resolutions = 1

\* The reason a permanently incompatible repository is incompatible for.
PermanentReason(r) ==
    IF ~worktree[r] THEN "BARE" ELSE CHOOSE reason \in probe_reasons : TRUE

\* C19: in a process whose repository is permanently incompatible the mode
\* is never IPC or HOOK: it is DISABLED or INCOMPATIBLE in every state, no
\* getter returns a watcher, and every set_ipc and set_hook, also one that
\* follows a set_disabled, leaves the mode INCOMPATIBLE with the permanent
\* reason.
C19_PermanentlyIncompatible ==
    /\ \A r \in repos :
            Resolved(r) =>
                /\ fsmonitor[r].mode \in {"DISABLED", "INCOMPATIBLE"}
                /\ fsmonitor[r].mode = "INCOMPATIBLE" =>
                        fsmonitor[r].reason = PermanentReason(r)
    /\ last.op = "get_mode" => last.ret \in {"DISABLED", "INCOMPATIBLE"}
    /\ last.op \in {"set_ipc", "set_hook"} =>
            /\ fsmonitor[last.r].mode = "INCOMPATIBLE"
            /\ fsmonitor[last.r].reason = PermanentReason(last.r)

\* Under core.fsmonitor true the resolution pinned the repository, so the
\* DISABLED that this set_ipc found was left by a set_disabled; the set_ipc
\* pinned it again, for the reason the probe always gives.
C19_Witness ==
    /\ last.op = "set_ipc"
    /\ config[last.r].fsmonitor = "true"
    /\ worktree[last.r]
    /\ last.before # NullSettings
    /\ last.before.mode = "DISABLED"
    /\ fsmonitor[last.r].mode = "INCOMPATIBLE"
    /\ fsmonitor[last.r].reason = "REMOTE"

\* The mode a resolution of r gives when nothing runs beside it.
ResolvedMode(r) ==
    lookup_fsmonitor_settings(
        r, [Enter(r, <<>>) EXCEPT !.fsmonitor = NullSettings]).fsmonitor.mode

\* C16: the test of r->settings.fsmonitor and the installation of the
\* settings are not one step.  As long as the calls of the two threads do
\* not overlap, at most one settings instance is allocated and every call
\* returns the mode the config resolves to; two allocations, or a call
\* that returns the default while the config resolves to another mode,
\* need calls that overlap.
C16_SerializedCallsResolveOnce ==
    ~threads.overlap =>
        /\ threads.allocs <= 1
        /\ \A t \in Threads :
                threads.pc[t] = "done" =>
                    threads.ret[t] = ResolvedMode("the_repository")

\* Both threads passed the test and both allocated and installed an
\* instance, and one of them returned the default DISABLED of the instance
\* the other had just installed, under a config that resolves to IPC.
C16_Witness ==
    /\ threads.overlap
    /\ \A t \in Threads : ~threads.populated[t] /\ threads.pc[t] # "idle"
    /\ threads.allocs = 2
    /\ ResolvedMode("the_repository") = "IPC"
    /\ \E t \in Threads :
            threads.pc[t] = "done" /\ threads.ret[t] = "DISABLED"

====
